---- MODULE Spec2Model ----
(***************************************************************************)
(* Model of jiub/thread_reader.py: the queries that extract game state     *)
(* from a paginated forum thread.  Texts are sequences of characters so    *)
(* that regular-expression matching, integer parsing and case folding are  *)
(* computed, not assumed.                                                  *)
(***************************************************************************)
EXTENDS Integers, Sequences, FiniteSets, TLC

VARIABLES
    fn,            \* the query being run ("none" before the call)
    pc,            \* position inside the query: "ready", "scan", "done"
    author,        \* whose posts the scan reads: "gm" or "bot"
    listing,       \* the author-filtered pages of the scanned author
    panel,         \* navigation panel of the author-filtered landing page
    event_regex,   \* get_last_event: the event_regex argument
    leg,           \* get_last_votecount: 0 = not running, 1 / 2 = which call
    votecount_id,  \* get_last_votecount: result of the first get_last_event
    gm_pages,      \* page count resolved by get_total_pages
    pages_left,    \* the pages the reverse scan's range has yet to yield
    fetched,       \* addresses fetched by the current scan, in order
    seen,          \* post lists the page fetches of the current scan returned
    allReal,       \* no fetch of this query degraded to the empty document
    post,          \* parse_stage: the post argument
    pats,          \* parse_stage: the three pattern arguments
    start_post,    \* get_player_list / get_actions_from_page: post argument
    doc,           \* the document the single-page queries fetched
    thread_pages,  \* how many pages the whole thread has
    prev,          \* an earlier get_page_number_from_post call: post and page
    result         \* what the query returned (or raised)

vars == <<fn, pc, author, listing, panel, event_regex, leg, votecount_id,
          gm_pages, pages_left, fetched, seen, allReal, post, pats, start_post,
          doc, thread_pages, prev, result>>

----------------------------------------------------------------------------
(* Bounds of the model *)

MaxPostId == 3
MaxPages == 2
MaxHeaders == 2

----------------------------------------------------------------------------
(* Texts *)

T_Dia == <<"D", "í", "a", " ", "2">>
T_DiaBare == <<"D", "í", "a">>
T_FinDia == <<"F", "i", "n", "a", "l", " ", "d", "e", "l", " ", "d", "í", "a", " ", "1">>
T_FinPartida == <<"F", "i", "n", "a", "l", " ", "d", "e", " ", "l", "a", " ", "p", "a", "r", "t", "i", "d", "a">>
T_Votos == <<"R", "e", "c", "u", "e", "n", "t", "o", " ", "d", "e", " ", "v", "o", "t", "o", "s">>
T_VotosFinal == <<"R", "e", "c", "u", "e", "n", "t", "o", " ", "d", "e", " ", "v", "o", "t", "o", "s", " ", "f", "i", "n", "a", "l">>
T_VotosNL == <<"R", "e", "c", "u", "e", "n", "t", "o", " ", "d", "e", " ", "v", "o", "t", "o", "s", "\n">>
T_Siguiente == <<"S", "i", "g", "u", "i", "e", "n", "t", "e">>

Digits == <<"0", "1", "2", "3", "4", "5", "6", "7", "8", "9">>

IsDigit(c) == \E i \in 1..Len(Digits) : Digits[i] = c

DigitVal(c) == (CHOOSE i \in 1..Len(Digits) : Digits[i] = c) - 1

----------------------------------------------------------------------------
(* Regular expressions: '^' literal, then an optional '[0-9]*', then an    *)
(* optional '$'.  re.match anchors at the start of the text only.          *)

Regex(lit, digits, eol) == [lit |-> lit, digits |-> digits, eol |-> eol]

game_end_regex == Regex(<<"F", "i", "n", "a", "l", " ", "d", "e", " ", "l", "a", " ", "p", "a", "r", "t", "i", "d", "a">>, FALSE, FALSE)
stage_end_regex == Regex(<<"F", "i", "n", "a", "l", " ", "d", "e", "l", " ", "d", "í", "a", " ">>, TRUE, FALSE)
stage_start_regex == Regex(<<"D", "í", "a", " ">>, TRUE, FALSE)
votecount_regex == Regex(<<"R", "e", "c", "u", "e", "n", "t", "o", " ", "d", "e", " ", "v", "o", "t", "o", "s">>, FALSE, TRUE)
lynch_regex == Regex(<<"R", "e", "c", "u", "e", "n", "t", "o", " ", "d", "e", " ", "v", "o", "t", "o", "s", " ", "f", "i", "n", "a", "l">>, FALSE, TRUE)

RECURSIVE DropDigits(_)
DropDigits(s) ==
    IF s # <<>> /\ IsDigit(Head(s)) THEN DropDigits(Tail(s)) ELSE s

ReMatch(re, text) ==
    LET n == Len(re.lit) IN
    /\ Len(text) >= n
    /\ SubSeq(text, 1, n) = re.lit
    /\ LET rest == SubSeq(text, n + 1, Len(text))
           tail == IF re.digits THEN DropDigits(rest) ELSE rest
       IN  re.eol => tail \in {<<>>, <<"\n">>}

----------------------------------------------------------------------------
(* Posts and stage classification *)

StampOf(num) == 1700000000 + 60 * num

Post(num, hasTime, headers) ==
    [num |-> num, hasTime |-> hasTime, time |-> StampOf(num), headers |-> headers]

NoStage == [tag |-> "None", post_id |-> 0, game_stage |-> "", stage_start_time |-> 0]

GameStage(post_id, game_stage, stage_start_time) ==
    [tag |-> "GameStage", post_id |-> post_id, game_stage |-> game_stage,
     stage_start_time |-> stage_start_time]

Raised(exc) == [tag |-> exc, post_id |-> 0, game_stage |-> "", stage_start_time |-> 0]

\* Mutation: the patterns tried in the opposite order.
StageOfHeader_swapped(header, ge, se, ss) ==
    IF ReMatch(ss, header) THEN "Day"
    ELSE IF ReMatch(se, header) THEN "Night"
    ELSE IF ReMatch(ge, header) THEN "End"
    ELSE ""

StageOfHeader(header, ge, se, ss) ==
    IF ReMatch(ge, header) THEN "End"
    ELSE IF ReMatch(se, header) THEN "Night"
    ELSE IF ReMatch(ss, header) THEN "Day"
    ELSE ""

RECURSIVE FirstStage(_, _, _, _)
FirstStage(headers, ge, se, ss) ==
    IF headers = <<>> THEN ""
    ELSE LET k == StageOfHeader(Head(headers), ge, se, ss) IN
         IF k # "" THEN k ELSE FirstStage(Tail(headers), ge, se, ss)

parse_stage(p, ge, se, ss) ==
    IF ~p.hasTime THEN Raised("TypeError")
    ELSE LET k == FirstStage(p.headers, ge, se, ss) IN
         IF k = "" THEN NoStage ELSE GameStage(p.num, k, p.time)

----------------------------------------------------------------------------
(* Documents, addresses and the pagination resolver *)

NoPanel == [present |-> FALSE, links |-> <<>>]

Panel(links) == [present |-> TRUE, links |-> links]

\* {thread}?u={author}
AuthorAddress(a) == [kind |-> "u", author |-> a, page |-> 0]

\* {thread}?u={author}&pagina={page}
AuthorPageAddress(a, n) == [kind |-> "u_pagina", author |-> a, page |-> n]

\* {thread}/{page}
PageAddress(n) == [kind |-> "page", author |-> "", page |-> n]

\* {thread}
ThreadAddress == [kind |-> "thread", author |-> "", page |-> 0]

\* int(text) of a link text: the texts of the model are digit strings or words.
IsNumeral(text) == text # <<>> /\ \A i \in 1..Len(text) : IsDigit(text[i])

RECURSIVE ParseInt(_)
ParseInt(text) ==
    IF text = <<>> THEN 0
    ELSE 10 * ParseInt(SubSeq(text, 1, Len(text) - 1)) + DigitVal(text[Len(text)])

get_total_pages(p) ==
    IF ~p.present THEN 1                       \* AttributeError
    ELSE IF Len(p.links) < 2 THEN 1            \* IndexError
    ELSE LET last_page_link == p.links[Len(p.links) - 1] IN
         IF ~IsNumeral(last_page_link) THEN 1  \* ValueError
         ELSE ParseInt(last_page_link)

\* What the forum serves for page n of an author's posts; nothing past the end.
get_posts_from_page(pages, n, ok) ==
    IF ok /\ n \in 1..Len(pages) THEN pages[n] ELSE <<>>

----------------------------------------------------------------------------
(* Reverse scans of one page *)

\* Mutation: the page's posts walked first to last.
RECURSIVE ScanStage_forward(_)
ScanStage_forward(posts) ==
    IF posts = <<>> THEN NoStage
    ELSE LET stage == parse_stage(Head(posts), game_end_regex,
                                  stage_end_regex, stage_start_regex)
         IN  IF stage.tag # "None" THEN stage ELSE ScanStage_forward(Tail(posts))

RECURSIVE ScanStage(_)
ScanStage(posts) ==
    IF posts = <<>> THEN NoStage
    ELSE LET stage == parse_stage(posts[Len(posts)], game_end_regex,
                                  stage_end_regex, stage_start_regex)
         IN  IF stage.tag # "None" THEN stage
             ELSE ScanStage(SubSeq(posts, 1, Len(posts) - 1))

HeaderMatches(headers, re) == \E i \in 1..Len(headers) : ReMatch(re, headers[i])

\* Mutation: the page's posts walked first to last.
RECURSIVE ScanEvent_forward(_, _)
ScanEvent_forward(posts, re) ==
    IF posts = <<>> THEN 0
    ELSE IF HeaderMatches(Head(posts).headers, re) THEN Head(posts).num
    ELSE ScanEvent_forward(Tail(posts), re)

\* The identifier of the last post with a matching header, 0 when there is none.
RECURSIVE ScanEvent(_, _)
ScanEvent(posts, re) ==
    IF posts = <<>> THEN 0
    ELSE IF HeaderMatches(posts[Len(posts)].headers, re) THEN posts[Len(posts)].num
    ELSE ScanEvent(SubSeq(posts, 1, Len(posts) - 1), re)

----------------------------------------------------------------------------
(* The threads the scans run against: the posts of one author, identifiers *)
(* ascending, cut into consecutive non-empty pages.                        *)

Shape(hasTime, headers) == [hasTime |-> hasTime, headers |-> headers]

GMShapes ==
    {Shape(TRUE, <<>>), Shape(TRUE, <<T_Dia>>), Shape(TRUE, <<T_FinDia>>),
     Shape(TRUE, <<T_FinPartida>>), Shape(FALSE, <<>>), Shape(FALSE, <<T_Dia>>)}

BotShapes ==
    {Shape(TRUE, <<>>), Shape(TRUE, <<T_Votos>>), Shape(TRUE, <<T_VotosFinal>>),
     Shape(TRUE, <<T_Votos, T_VotosFinal>>), Shape(TRUE, <<T_VotosNL>>)}

Min(S) == CHOOSE m \in S : \A x \in S : m <= x

RECURSIVE Ascending(_)
Ascending(S) == IF S = {} THEN <<>> ELSE <<Min(S)>> \o Ascending(S \ {Min(S)})

Paginate(posts, cuts) ==
    LET b == <<0>> \o Ascending(cuts) \o <<Len(posts)>> IN
    [j \in 1..(Len(b) - 1) |-> SubSeq(posts, b[j] + 1, b[j + 1])]

Listings(shapes) ==
    UNION { UNION { { Paginate([i \in 1..Cardinality(ids) |->
                                  Post(Ascending(ids)[i], f[Ascending(ids)[i]].hasTime,
                                       f[Ascending(ids)[i]].headers)], cuts) :
                      cuts \in {c \in SUBSET (1..(Cardinality(ids) - 1)) :
                                  Cardinality(c) < MaxPages} } :
                    f \in [ids -> shapes] } :
            ids \in SUBSET (1..MaxPostId) }

Numeral(n) == <<Digits[n + 1]>>

NavLinks(n) == [i \in 1..n |-> Numeral(i)] \o <<T_Siguiente>>

Panels ==
    {NoPanel, Panel(<<Numeral(1)>>), Panel(<<T_Siguiente, Numeral(1)>>)}
        \cup {Panel(NavLinks(n)) : n \in 2..MaxPages}

Pending == [tag |-> "pending"]

IntResult(n) == [tag |-> "int", value |-> n]

VotecountResult(id, is_final) ==
    [tag |-> "tuple", votecount_id |-> id, is_final |-> is_final]

\* Mutation: the pages walked first to last.
PageRange_ascending(n) == [i \in 1..n |-> i]

\* range(gm_pages, 0, -1)
PageRange(n) == [i \in 1..n |-> n - i + 1]

----------------------------------------------------------------------------
(* get_game_phase *)

ScanIdle ==
    /\ post = Post(0, FALSE, <<>>) /\ pats = <<>> /\ start_post = 0
    /\ doc = <<>> /\ thread_pages = 0 /\ prev = <<>>

InitScan ==
    /\ fn = "none" /\ pc = "ready"
    /\ author \in {"gm", "bot"}
    /\ listing \in Listings(IF author = "gm" THEN GMShapes ELSE BotShapes)
    /\ panel \in Panels
    /\ event_regex = votecount_regex /\ leg = 0 /\ votecount_id = 0
    /\ gm_pages = 0 /\ pages_left = <<>> /\ fetched = <<>> /\ seen = <<>>
    /\ allReal = TRUE /\ result = Pending
    /\ ScanIdle

\* fetch_html(f"{game_thread}?u={author}") and get_total_pages of it
ResolvePages(ok) ==
    LET html == IF ok THEN panel ELSE NoPanel IN
    /\ gm_pages' = get_total_pages(html)
    /\ pages_left' = PageRange(get_total_pages(html))
    /\ fetched' = <<AuthorAddress(author)>>
    /\ seen' = <<>>
    /\ allReal' = (allReal /\ ok)

get_game_phase ==
    /\ pc = "ready" /\ fn = "none" /\ author = "gm"
    /\ fn' = "get_game_phase" /\ pc' = "scan"
    /\ \E ok \in BOOLEAN : ResolvePages(ok)
    /\ UNCHANGED <<author, listing, panel, event_regex, leg, votecount_id, post,
                   pats, start_post, doc, thread_pages, prev, result>>

\* One iteration of the page loop: fetch the page, scan its posts in reverse.
get_game_phase_page ==
    /\ pc = "scan" /\ fn = "get_game_phase" /\ pages_left # <<>>
    /\ \E ok \in BOOLEAN :
         LET posts == get_posts_from_page(listing, Head(pages_left), ok)
             stage == ScanStage(posts)
         IN  /\ fetched' = Append(fetched, AuthorPageAddress(author, Head(pages_left)))
             /\ seen' = Append(seen, posts)
             /\ allReal' = (allReal /\ ok)
             /\ IF stage.tag # "None"
                  THEN /\ result' = stage /\ pc' = "done"
                       /\ UNCHANGED pages_left
                  ELSE /\ pages_left' = Tail(pages_left)
                       /\ UNCHANGED <<result, pc>>
    /\ UNCHANGED <<fn, author, listing, panel, event_regex, leg, votecount_id,
                   gm_pages, post, pats, start_post, doc, thread_pages, prev>>

\* Mutation: the default stage is Day.
DefaultStage_day == GameStage(1, "Day", 0)

DefaultStage == GameStage(1, "Night", 0)

get_game_phase_default ==
    /\ pc = "scan" /\ fn = "get_game_phase" /\ pages_left = <<>>
    /\ result' = DefaultStage /\ pc' = "done"
    /\ UNCHANGED <<fn, author, listing, panel, event_regex, leg, votecount_id,
                   gm_pages, pages_left, fetched, seen, allReal, post, pats,
                   start_post, doc, thread_pages, prev>>

----------------------------------------------------------------------------
(* get_last_event and get_last_votecount *)

get_last_event ==
    /\ pc = "ready" /\ fn = "none" /\ author = "bot"
    /\ fn' = "get_last_event" /\ pc' = "scan"
    /\ event_regex' \in {votecount_regex, lynch_regex}
    /\ \E ok \in BOOLEAN : ResolvePages(ok)
    /\ UNCHANGED <<author, listing, panel, leg, votecount_id, post, pats,
                   start_post, doc, thread_pages, prev, result>>

\* votecount_id = get_last_event(game_thread, bot_id, '^Recuento de votos$')
get_last_votecount ==
    /\ pc = "ready" /\ fn = "none" /\ author = "bot"
    /\ fn' = "get_last_votecount" /\ pc' = "scan"
    /\ leg' = 1 /\ event_regex' = votecount_regex
    /\ \E ok \in BOOLEAN : ResolvePages(ok)
    /\ UNCHANGED <<author, listing, panel, votecount_id, post, pats, start_post,
                   doc, thread_pages, prev, result>>

\* lynch_id = get_last_event(game_thread, bot_id, '^Recuento de votos final$')
get_last_votecount_lynch ==
    /\ pc = "ready" /\ fn = "get_last_votecount" /\ leg = 1
    /\ pc' = "scan" /\ leg' = 2 /\ event_regex' = lynch_regex
    /\ \E ok \in BOOLEAN : ResolvePages(ok)
    /\ UNCHANGED <<fn, author, listing, panel, votecount_id, post, pats,
                   start_post, doc, thread_pages, prev, result>>

IsFinal(votecount, lynch) == lynch = votecount

\* get_last_event returns id: to its caller, or as the query's result
ReturnEvent(id) ==
    IF fn = "get_last_event"
      THEN /\ result' = IntResult(id) /\ pc' = "done"
           /\ UNCHANGED votecount_id
    ELSE IF leg = 1
      THEN /\ votecount_id' = id /\ pc' = "ready"
           /\ UNCHANGED result
    ELSE /\ result' = VotecountResult(votecount_id, IsFinal(votecount_id, id))
         /\ pc' = "done"
         /\ UNCHANGED votecount_id

get_last_event_page ==
    /\ pc = "scan" /\ fn \in {"get_last_event", "get_last_votecount"}
    /\ pages_left # <<>>
    /\ \E ok \in BOOLEAN :
         LET posts == get_posts_from_page(listing, Head(pages_left), ok)
             id == ScanEvent(posts, event_regex)
         IN  /\ fetched' = Append(fetched, AuthorPageAddress(author, Head(pages_left)))
             /\ seen' = Append(seen, posts)
             /\ allReal' = (allReal /\ ok)
             /\ IF id # 0
                  THEN ReturnEvent(id) /\ UNCHANGED pages_left
                  ELSE /\ pages_left' = Tail(pages_left)
                       /\ UNCHANGED <<result, pc, votecount_id>>
    /\ UNCHANGED <<fn, author, listing, panel, event_regex, leg, gm_pages, post,
                   pats, start_post, doc, thread_pages, prev>>

get_last_event_default ==
    /\ pc = "scan" /\ fn \in {"get_last_event", "get_last_votecount"}
    /\ pages_left = <<>>
    /\ ReturnEvent(1)
    /\ UNCHANGED <<fn, author, listing, panel, event_regex, leg, gm_pages,
                   pages_left, fetched, seen, allReal, post, pats, start_post,
                   doc, thread_pages, prev>>

NextScan ==
    \/ get_game_phase
    \/ get_game_phase_page
    \/ get_game_phase_default
    \/ get_last_event
    \/ get_last_votecount
    \/ get_last_votecount_lynch
    \/ get_last_event_page
    \/ get_last_event_default

SpecScan == InitScan /\ [][NextScan]_vars

----------------------------------------------------------------------------
(* parse_stage on its own: any post, any three patterns *)

StageTexts == {T_Dia, T_DiaBare, T_FinDia, T_FinPartida}

HeaderLists == UNION {[1..n -> StageTexts] : n \in 0..MaxHeaders}

PatternPool ==
    {game_end_regex, stage_end_regex, stage_start_regex,
     Regex(<<"F", "i", "n", "a", "l">>, FALSE, FALSE), Regex(<<>>, FALSE, FALSE)}

InitStage ==
    /\ fn = "none" /\ pc = "ready"
    /\ \E num \in {5, 12}, hasTime \in BOOLEAN, headers \in HeaderLists :
         post = Post(num, hasTime, headers)
    /\ pats \in PatternPool \X PatternPool \X PatternPool
    /\ author = "" /\ listing = <<>> /\ panel = NoPanel
    /\ event_regex = votecount_regex /\ leg = 0 /\ votecount_id = 0
    /\ gm_pages = 0 /\ pages_left = <<>> /\ fetched = <<>> /\ seen = <<>>
    /\ allReal = TRUE /\ result = Pending
    /\ start_post = 0 /\ doc = <<>> /\ thread_pages = 0 /\ prev = <<>>

call_parse_stage ==
    /\ pc = "ready" /\ fn = "none" /\ pats # <<>>
    /\ fn' = "parse_stage" /\ pc' = "done"
    /\ result' = parse_stage(post, pats[1], pats[2], pats[3])
    /\ UNCHANGED <<author, listing, panel, event_regex, leg, votecount_id,
                   gm_pages, pages_left, fetched, seen, allReal, post, pats,
                   start_post, doc, thread_pages, prev>>

NextStage == call_parse_stage

SpecStage == InitStage /\ [][NextStage]_vars

----------------------------------------------------------------------------
(* Text conversions: str.lower, str.strip, unicodedata.normalize("NFKC") *)

UpperCase == <<"A", "B", "C", "D", "E", "F", "G", "H", "I", "J", "K", "L", "M", "N", "O", "P", "Q", "R", "S", "T", "U", "V", "W", "X", "Y", "Z", "Í", "U+FF21">>
LowerCase == <<"a", "b", "c", "d", "e", "f", "g", "h", "i", "j", "k", "l", "m", "n", "o", "p", "q", "r", "s", "t", "u", "v", "w", "x", "y", "z", "í", "U+FF41">>

LowerChar(c) ==
    IF \E i \in 1..Len(UpperCase) : UpperCase[i] = c
      THEN LowerCase[CHOOSE i \in 1..Len(UpperCase) : UpperCase[i] = c]
      ELSE c

Lower(text) == [i \in 1..Len(text) |-> LowerChar(text[i])]

IsSpace(c) == c \in {" ", "\t", "\n"}

RECURSIVE StripLeft(_)
StripLeft(text) ==
    IF text # <<>> /\ IsSpace(Head(text)) THEN StripLeft(Tail(text)) ELSE text

RECURSIVE StripRight(_)
StripRight(text) ==
    IF text # <<>> /\ IsSpace(text[Len(text)])
      THEN StripRight(SubSeq(text, 1, Len(text) - 1))
      ELSE text

Strip(text) == StripRight(StripLeft(text))

\* Compatibility decomposition followed by composition, on the characters used.
\* A character outside Latin-1 is written as its code point: U+FB01 is the
\* ligature fi, U+FF21 and U+FF41 the fullwidth letters A and a.
NFKCChar(c) ==
    IF c = "U+FB01" THEN <<"f", "i">>
    ELSE IF c = "U+FF41" THEN <<"a">>
    ELSE IF c = "U+FF21" THEN <<"A">>
    ELSE <<c>>

RECURSIVE NFKC(_)
NFKC(text) == IF text = <<>> THEN <<>> ELSE NFKCChar(Head(text)) \o NFKC(Tail(text))

----------------------------------------------------------------------------
(* get_page_number_from_post, get_player_list, get_last_post *)

PageSize == 30
MaxThreadPages == 2

\* Mutation: floor plus one.
get_page_number_from_post_floor(post_id) == (post_id \div PageSize) + 1

\* math.ceil(post_id / 30)
get_page_number_from_post(post_id) ==
    IF post_id % PageSize = 0 THEN post_id \div PageSize
    ELSE (post_id \div PageSize) + 1

PlayerNames ==
    {<<>>,
     <<<<" ", "A", "n", "a", " ">>, <<"B", "O", "B">>>>,
     <<<<"l", "u", "z", "\n">>>>}

\* A post as get_player_list reads it: its number, and its <ol> of links if any.
RosterPost(num, hasOl, players) == [num |-> num, hasOl |-> hasOl, players |-> players]

RosterShapes ==
    {[hasOl |-> FALSE, players |-> <<>>]}
        \cup {[hasOl |-> TRUE, players |-> pl] : pl \in PlayerNames}

\* Another post of the page that holds post_id.
Neighbour(post_id) == IF post_id % PageSize = 0 THEN post_id - 1 ELSE post_id + 1

\* The pages the fetcher can return for the page of post_id: any of the post
\* and a neighbour, in ascending order; the empty document among them.
RosterDocs(post_id) ==
    UNION { { [i \in 1..Cardinality(ids) |->
                 RosterPost(Ascending(ids)[i], f[Ascending(ids)[i]].hasOl,
                            f[Ascending(ids)[i]].players)] :
              f \in [ids -> RosterShapes] } :
            ids \in SUBSET {post_id, Neighbour(post_id)} }

ListResult(value) == [tag |-> "list", value |-> value]

RaisedIn(exc) == [tag |-> exc, value |-> <<>>]

RECURSIVE FindPost(_, _)
FindPost(posts, post_id) ==
    IF posts = <<>> THEN <<>>
    ELSE IF Head(posts).num = post_id THEN <<Head(posts)>>
    ELSE FindPost(Tail(posts), post_id)

PlayerList(posts, start_day_post_id) ==
    LET hit == FindPost(posts, start_day_post_id) IN
    IF hit = <<>> THEN ListResult(<<>>)
    ELSE IF ~hit[1].hasOl THEN RaisedIn("AttributeError")
    ELSE ListResult([i \in 1..Len(hit[1].players) |-> Strip(Lower(hit[1].players[i]))])

InitRoster ==
    /\ fn = "none" /\ pc = "ready"
    /\ thread_pages \in 1..MaxThreadPages
    /\ start_post = 0 /\ doc = <<>> /\ prev = <<>>
    /\ author = "" /\ listing = <<>> /\ panel = NoPanel
    /\ event_regex = votecount_regex /\ leg = 0 /\ votecount_id = 0
    /\ gm_pages = 0 /\ pages_left = <<>> /\ fetched = <<>> /\ seen = <<>>
    /\ allReal = TRUE /\ result = Pending
    /\ post = Post(0, FALSE, <<>>) /\ pats = <<>>

\* An earlier coordinate lookup, kept to compare the next one against.
call_get_page_number_from_post ==
    /\ thread_pages >= 1 /\ fn = "none" /\ prev = <<>>
    /\ \E post_id \in 1..(PageSize * thread_pages) :
         prev' = <<[post_id |-> post_id, page |-> get_page_number_from_post(post_id)]>>
    /\ UNCHANGED <<fn, pc, author, listing, panel, event_regex, leg, votecount_id,
                   gm_pages, pages_left, fetched, seen, allReal, post, pats,
                   start_post, doc, thread_pages, result>>

get_player_list ==
    /\ thread_pages >= 1 /\ fn = "none"
    /\ fn' = "get_player_list" /\ pc' = "done"
    /\ \E start_day_post_id \in 1..(PageSize * thread_pages) :
         LET page_number == get_page_number_from_post(start_day_post_id) IN
         /\ start_post' = start_day_post_id
         /\ fetched' = <<PageAddress(page_number)>>
         /\ doc' \in RosterDocs(start_day_post_id)
         /\ result' = PlayerList(doc', start_day_post_id)
    /\ UNCHANGED <<author, listing, panel, event_regex, leg, votecount_id,
                   gm_pages, pages_left, seen, allReal, post, pats, thread_pages,
                   prev>>

\* request_page_count, then the last page's last post
get_last_post ==
    /\ thread_pages >= 1 /\ fn = "none"
    /\ fn' = "get_last_post" /\ pc' = "done"
    /\ \E html \in Panels :
         LET last_page == get_total_pages(html) IN
         /\ panel' = html
         /\ gm_pages' = last_page
         /\ fetched' = <<ThreadAddress, PageAddress(last_page)>>
         /\ doc' \in RosterDocs(PageSize * last_page - 1)
         /\ result' = IntResult(IF doc' # <<>> THEN doc'[Len(doc')].num ELSE 1)
    /\ UNCHANGED <<author, listing, event_regex, leg, votecount_id, pages_left,
                   seen, allReal, post, pats, start_post, thread_pages, prev>>

NextRoster == call_get_page_number_from_post \/ get_player_list \/ get_last_post

SpecRoster == InitRoster /\ [][NextRoster]_vars

----------------------------------------------------------------------------
(* get_actions_from_page *)

MaxActionPostId == 3

PostClasses == {"cf post", "cf post z", "cf post first"}

Cmd_Voto == <<"V", "o", "t", "o", " ", "A", "n", "a">>
Cmd_Fin == <<"U+FB01", "N", " ", "U+FF21">>

\* A post as get_actions_from_page reads it.
ActionShapes ==
    {[class |-> "cf post", hasContents |-> TRUE, hasRd |-> TRUE, commands |-> <<>>],
     [class |-> "cf post first", hasContents |-> TRUE, hasRd |-> TRUE, commands |-> <<Cmd_Voto>>],
     [class |-> "cf post z", hasContents |-> TRUE, hasRd |-> TRUE,
      commands |-> <<Cmd_Voto, Cmd_Fin, Cmd_Voto>>],
     [class |-> "cf post", hasContents |-> FALSE, hasRd |-> TRUE, commands |-> <<>>],
     [class |-> "cf post", hasContents |-> TRUE, hasRd |-> FALSE, commands |-> <<>>],
     [class |-> "cf post", hasContents |-> TRUE, hasRd |-> FALSE, commands |-> <<Cmd_Fin>>],
     [class |-> "cf post hidden", hasContents |-> TRUE, hasRd |-> TRUE, commands |-> <<Cmd_Voto>>]}

AuthorOf(num) == IF num % 2 = 1 THEN <<"A", "n", "a">> ELSE <<"B", "O", "B">>

ActionPost(num, shape) ==
    [num |-> num, class |-> shape.class, author |-> AuthorOf(num),
     time |-> StampOf(num), hasContents |-> shape.hasContents,
     hasRd |-> shape.hasRd, commands |-> shape.commands]

ActionDocs ==
    UNION { { [i \in 1..Cardinality(ids) |->
                 ActionPost(Ascending(ids)[i], f[Ascending(ids)[i]])] :
              f \in [ids -> ActionShapes] } :
            ids \in SUBSET (1..MaxActionPostId) }

GameAction(post_id, post_time, contents, who) ==
    [post_id |-> post_id, post_time |-> post_time, contents |-> contents,
     author |-> who]

\* Mutation: the boundary post is not skipped.
Selected_inclusive(p, start_from_post) ==
    p.class \in PostClasses /\ p.num >= start_from_post

Selected(p, start_from_post) ==
    p.class \in PostClasses /\ p.num > start_from_post

\* The loop over the posts: acc is the list so far, or the exception raised.
RECURSIVE CollectActions(_, _, _)
CollectActions(posts, start_from_post, acc) ==
    IF posts = <<>> \/ acc.tag # "list" THEN acc
    ELSE LET p == Head(posts) IN
         CollectActions(Tail(posts), start_from_post,
            IF ~Selected(p, start_from_post) THEN acc
            ELSE IF ~p.hasContents THEN RaisedIn("AttributeError")
            ELSE IF p.commands # <<>> /\ ~p.hasRd THEN RaisedIn("TypeError")
            ELSE ListResult(acc.value \o
                    [j \in 1..Len(p.commands) |->
                        GameAction(p.num, p.time, NFKC(Lower(p.commands[j])),
                                   Lower(p.author))]))

InitActions ==
    /\ fn = "none" /\ pc = "ready"
    /\ doc \in ActionDocs
    /\ start_post \in 0..MaxActionPostId
    /\ thread_pages = 0 /\ prev = <<>>
    /\ author = "" /\ listing = <<>> /\ panel = NoPanel
    /\ event_regex = votecount_regex /\ leg = 0 /\ votecount_id = 0
    /\ gm_pages = 0 /\ pages_left = <<>> /\ fetched = <<>> /\ seen = <<>>
    /\ allReal = TRUE /\ result = Pending
    /\ post = Post(0, FALSE, <<>>) /\ pats = <<>>

get_actions_from_page ==
    /\ pc = "ready" /\ fn = "none" /\ thread_pages = 0 /\ author = "" /\ pats = <<>>
    /\ fn' = "get_actions_from_page" /\ pc' = "done"
    /\ \E page_to_scan \in 1..2, ok \in BOOLEAN :
         /\ fetched' = <<PageAddress(page_to_scan)>>
         /\ allReal' = ok
         /\ seen' = <<IF ok THEN doc ELSE <<>>>>
         /\ result' = CollectActions(IF ok THEN doc ELSE <<>>, start_post,
                                     ListResult(<<>>))
    /\ UNCHANGED <<author, listing, panel, event_regex, leg, votecount_id,
                   gm_pages, pages_left, post, pats, start_post, doc,
                   thread_pages, prev>>

NextActions == get_actions_from_page

SpecActions == InitActions /\ [][NextActions]_vars

----------------------------------------------------------------------------
(* Every query, against every thread of the model *)

Init == InitScan \/ InitStage \/ InitRoster \/ InitActions

Next == NextScan \/ NextStage \/ NextRoster \/ NextActions

Spec == Init /\ [][Next]_vars

----------------------------------------------------------------------------
(* What the claims speak of *)

AnyMatch(header, ge, se, ss) ==
    ReMatch(ge, header) \/ ReMatch(se, header) \/ ReMatch(ss, header)

\* The stage kind the specification gives a post: the first header, in
\* document order, that matches a pattern decides, End before Night before Day.
StageSpec(p, ge, se, ss) ==
    IF \A i \in 1..Len(p.headers) : ~AnyMatch(p.headers[i], ge, se, ss) THEN ""
    ELSE LET i == CHOOSE k \in 1..Len(p.headers) :
                    /\ AnyMatch(p.headers[k], ge, se, ss)
                    /\ \A j \in 1..(k - 1) : ~AnyMatch(p.headers[j], ge, se, ss)
         IN  IF ReMatch(ge, p.headers[i]) THEN "End"
             ELSE IF ReMatch(se, p.headers[i]) THEN "Night"
             ELSE "Day"

GameKind(p) == StageSpec(p, game_end_regex, stage_end_regex, stage_start_regex)

PostsOf(pages) ==
    UNION {{pages[n][i] : i \in 1..Len(pages[n])} : n \in 1..Len(pages)}

\* q is the post of greatest identifier among those of S that satisfy Q
Latest(q, S, Q(_)) == q \in S /\ Q(q) /\ \A p \in S : Q(p) => p.num <= q.num

IsStagePost(p) == GameKind(p) # ""

IsEventPost(p) == HeaderMatches(p.headers, event_regex)

\* The page count was resolved and covers every page the author's posts span.
Resolved == allReal /\ gm_pages >= Len(listing)

\* C3: parse_stage forms its result from the first header, in document order,
\* that matches at least one of the three patterns, choosing End, then Night,
\* then Day on that header; a post with no matching header yields None.  (A
\* post is the unit of section 3: it carries its timestamp.)
C3_StagePrecedence ==
    (fn = "parse_stage" /\ pc = "done" /\ post.hasTime) =>
        LET k == StageSpec(post, pats[1], pats[2], pats[3]) IN
        result = IF k = "" THEN NoStage ELSE GameStage(post.num, k, post.time)

\* parse_stage has classified a post whose first matching header matches both
\* the end-of-game and the start-of-stage pattern: End.
C3_Witness ==
    /\ fn = "parse_stage" /\ pc = "done" /\ post.hasTime
    /\ Len(post.headers) = 2
    /\ ~AnyMatch(post.headers[1], pats[1], pats[2], pats[3])
    /\ ReMatch(pats[1], post.headers[2]) /\ ReMatch(pats[3], post.headers[2])
    /\ result = GameStage(post.num, "End", post.time)

\* C1: when the fetches return the real pages, get_game_phase returns the
\* StageEvent of the game master's post with the greatest identifier among
\* the posts that classify to one.
C1_LatestStage ==
    (fn = "get_game_phase" /\ pc = "done" /\ Resolved) =>
        \A q \in PostsOf(listing) :
            (/\ Latest(q, PostsOf(listing), IsStagePost)
             /\ \A p \in PostsOf(listing) : p.num >= q.num => p.hasTime)
            => result = GameStage(q.num, GameKind(q), q.time)

\* Two stage posts on different pages, of different kinds: the later one is
\* returned.
C1_Witness ==
    /\ fn = "get_game_phase" /\ pc = "done" /\ Resolved
    /\ Len(listing) >= 2
    /\ \E a \in 1..Len(listing[1]), b \in 1..Len(listing[2]) :
         /\ IsStagePost(listing[1][a]) /\ IsStagePost(listing[2][b])
         /\ GameKind(listing[1][a]) # GameKind(listing[2][b])
         /\ Latest(listing[2][b], PostsOf(listing), IsStagePost)
         /\ result = GameStage(listing[2][b].num, GameKind(listing[2][b]),
                               listing[2][b].time)

\* C4: when the fetches return the real pages, get_last_event returns the
\* identifier of the author's post with the greatest identifier among those
\* with a header matching the regular expression.
C4_LastEvent ==
    (fn = "get_last_event" /\ pc = "done" /\ Resolved) =>
        \A q \in PostsOf(listing) :
            Latest(q, PostsOf(listing), IsEventPost) => result = IntResult(q.num)

\* Matching posts on two pages and a later post that does not match.
C4_Witness ==
    /\ fn = "get_last_event" /\ pc = "done" /\ Resolved
    /\ Len(listing) >= 2
    /\ \E a \in 1..Len(listing[1]), b \in 1..Len(listing[2]) :
         /\ IsEventPost(listing[1][a]) /\ IsEventPost(listing[2][b])
         /\ b < Len(listing[2])
         /\ Latest(listing[2][b], PostsOf(listing), IsEventPost)
         /\ result = IntResult(listing[2][b].num)

IsTally(p) ==
    HeaderMatches(p.headers, votecount_regex) \/ HeaderMatches(p.headers, lynch_regex)

\* C2: the boolean get_last_votecount returns is true exactly when the bot's
\* most recent tally post, of either kind, is a final tally.
C2_FinalIffLatestTallyIsFinal ==
    (fn = "get_last_votecount" /\ pc = "done" /\ Resolved) =>
        (result.is_final <=>
            \E q \in PostsOf(listing) :
                /\ Latest(q, PostsOf(listing), IsTally)
                /\ HeaderMatches(q.headers, lynch_regex))

SeenPosts == UNION {{seen[n][i] : i \in 1..Len(seen[n])} : n \in 1..Len(seen)}

\* C7: when no post on any page the scan was served classifies (for
\* get_game_phase: every post classifies to None; for get_last_event: no
\* header matches), the result is the sentinel: {1, Night, 0}, or 1.
C7_Sentinel ==
    /\ (/\ fn = "get_game_phase" /\ pc = "done"
        /\ \A p \in SeenPosts : p.hasTime /\ ~IsStagePost(p))
       => result = GameStage(1, "Night", 0)
    /\ (/\ fn = "get_last_event" /\ pc = "done"
        /\ \A p \in SeenPosts : ~IsEventPost(p))
       => result = IntResult(1)

\* get_game_phase has scanned two pages of real posts, none of them a stage
\* post, and returned the sentinel.
C7_Witness ==
    /\ fn = "get_game_phase" /\ pc = "done" /\ allReal
    /\ Len(seen) = 2 /\ seen[1] # <<>> /\ seen[2] # <<>>
    /\ result = GameStage(1, "Night", 0)

\* The scan steps of a query that has been called are always taken: the code
\* is synchronous and every fetch returns.
SpecScanFair == InitScan /\ [][NextScan]_vars /\ WF_vars(NextScan)

ScanQueries == {"get_game_phase", "get_last_event", "get_last_votecount"}

\* The page's posts hold a match for the running scan.
HasMatch(posts) ==
    \E i \in 1..Len(posts) :
        IF fn = "get_game_phase" THEN IsStagePost(posts[i]) ELSE IsEventPost(posts[i])

ReverseScanOrder ==
    (fn \in ScanQueries) =>
        /\ Len(fetched) = Len(seen) + 1
        /\ fetched[1] = AuthorAddress(author)
        /\ Len(seen) <= gm_pages
        /\ pc = "scan" => Len(seen) + Len(pages_left) = gm_pages
        /\ \A i \in 1..Len(seen) :
             /\ fetched[i + 1] = AuthorPageAddress(author, gm_pages - (i - 1))
             /\ fetched[i + 1].page >= 1
        /\ \A i \in 1..(Len(seen) - 1) : ~HasMatch(seen[i])

\* C10: after the one page-count fetch, the author's pages are fetched one at
\* a time in strictly descending page number from the resolved page count,
\* each at most once; no page is fetched after a page that held a match; and
\* a scan that has started ends, after at most gm_pages page fetches: a step
\* is always possible, and each one ends the scan or uses up a page.
C10_ReverseScan ==
    /\ []ReverseScanOrder
    /\ [](pc = "scan" => ENABLED NextScan)
    /\ [][pc = "scan" => (pc' # "scan" \/ Len(pages_left') < Len(pages_left))]_vars

\* A scan of a two-page listing ended on page 2, the first page it fetched,
\* although page 1 holds a stage post as well.
C10_Witness ==
    /\ fn = "get_game_phase" /\ pc = "done" /\ allReal
    /\ gm_pages = 2 /\ Len(listing) = 2
    /\ fetched = <<AuthorAddress(author), AuthorPageAddress(author, 2)>>
    /\ HasMatch(listing[1]) /\ HasMatch(listing[2])

\* ceil(P / 30) is the one k with 30 (k - 1) < P <= 30 k.
IsCeil(k, P) == PageSize * (k - 1) < P /\ P <= PageSize * k

\* C9: for a thread of N pages and a post P in 1..30N,
\* get_page_number_from_post(P) is ceil(P / 30), lies in 1..N and does not
\* decrease as P grows; get_player_list fetches exactly that one page.
C9_PageOfPost ==
    /\ \A i \in 1..Len(prev) :
         /\ IsCeil(prev[i].page, prev[i].post_id)
         /\ prev[i].page \in 1..thread_pages
    /\ (fn = "get_player_list" /\ pc = "done") =>
         /\ fetched = <<PageAddress(fetched[1].page)>>
         /\ IsCeil(fetched[1].page, start_post)
         /\ fetched[1].page \in 1..thread_pages
         /\ \A i \in 1..Len(prev) :
              /\ prev[i].post_id <= start_post => prev[i].page <= fetched[1].page
              /\ prev[i].post_id >= start_post => prev[i].page >= fetched[1].page

\* Posts 30 and 31, either side of a page boundary: pages 1 and 2.
C9_Witness ==
    /\ fn = "get_player_list" /\ pc = "done"
    /\ prev = <<[post_id |-> PageSize, page |-> 1]>>
    /\ start_post = PageSize + 1
    /\ fetched = <<PageAddress(2)>>

\* C5: get_player_list returns the empty list when the post is absent from
\* the fetched page, and when it is present without an ordered list.
C5_EmptyWhenPostOrListAbsent ==
    (/\ fn = "get_player_list" /\ pc = "done"
     /\ \/ \A i \in 1..Len(doc) : doc[i].num # start_post
        \/ \E i \in 1..Len(doc) : doc[i].num = start_post /\ ~doc[i].hasOl)
    => result = ListResult(<<>>)

\* C6: no query raises, whatever the fetched pages hold.
C6_NeverRaises ==
    pc = "done" => result.tag \notin {"TypeError", "AttributeError"}

\* The page get_actions_from_page was served.
Served == IF seen = <<>> THEN <<>> ELSE seen[1]

Qualifies(p) == p.class \in PostClasses /\ p.num > start_post

CommandCount(i) == IF Qualifies(Served[i]) THEN Len(Served[i].commands) ELSE 0

\* How many records the posts before the i-th account for.
RECURSIVE Offset(_)
Offset(i) == IF i <= 1 THEN 0 ELSE Offset(i - 1) + CommandCount(i - 1)

====
